---------------------------- MODULE Spec2Model ----------------------------
(***************************************************************************)
(* Model of the STM32 G4 ADC driver, embassy-stm32/src/adc/g4.rs.          *)
(*                                                                         *)
(* The driver is a single thread of control (pc) acting on memory-mapped   *)
(* registers; the peripheral is a second agent that clears the calibration *)
(* bit, raises the ready flag and completes conversions.  Every register   *)
(* access of the driver that the peripheral can observe is one step.       *)
(***************************************************************************)
EXTENDS Integers, Sequences, FiniteSets

(***************************************************************************)
(* Program constants (cfg(stm32g4)).                                       *)
(***************************************************************************)
MAX_ADC_CLK_FREQ == 60000000
VREF_CHANNEL == 18
TEMP_CHANNEL == 16
VBAT_CHANNEL == 17

(***************************************************************************)
(* Bounds of the model.                                                    *)
(***************************************************************************)
\* input clocks go up to (MaxRatio + 1) * MAX_ADC_CLK_FREQ
MaxRatio == 13
\* public operations called on one handle
MaxOps == 3
\* sample-time codes 0..MaxSampleTime are passed to set_sample_time
MaxSampleTime == 1
\* oversampling shift and ratio codes 0..MaxOversampling are passed
MaxOversampling == 1
MaxOtherReads == 1
MaxFirstReads == 1

MHz == 1000 * 1000

\* Offsets added to each multiple of the ceiling: the multiple itself, one
\* hertz above it, and points inside the interval.
FreqOffsets == {0, 1, 20 * MHz, 40 * MHz, MAX_ADC_CLK_FREQ - 1}

\* Kernel clocks T::frequency() may report (u32 hertz, never 0).
ClockFrequencies ==
    {k * MAX_ADC_CLK_FREQ + o : k \in 0..MaxRatio, o \in FreqOffsets} \ {0}

\* The clocks of the full driver model: one per outcome of the selection.
Frequencies == {160 * MHz, 800 * MHz}

\* Channel indices passed to the public operations: the two at the
\* threshold of the sample-time banks, and the reference-voltage channel.
Channels == {9, 10, VREF_CHANNEL}

\* All channel indices of the family.
AllChannels == 0..18

\* Values the peripheral leaves in the 32-bit data register.
DrValues == {2^6 - 1, 2^12, 2^16 + 5}

\* Resolution, as the width of the result in bits.
Resolutions == {12, 10, 8, 6}

SampleTimes == 0..MaxSampleTime

NoCall == [op |-> "none", ch |-> 0, enable |-> FALSE]
NoSample == 0 - 1
NoRead == [ch |-> -1, dr |-> -1, result |-> -1, cfg |-> <<>>, of |-> -1,
           reads |-> 0]
NoPair == [ch |-> -1, before |-> {}, stage |-> 0]
NoChannel == 0 - 1
\* The second context before it calls anything.
NoOther == [pc |-> "idle", ch |-> NoChannel, result |-> NoSample,
            of |-> NoChannel, reads |-> 0, ops0 |-> 0, interleaved |-> FALSE]

VARIABLES
    freq,         \* T::frequency()
    other,        \* a second execution context calling blocking_read
    pc,           \* the driver's position
    handle,       \* "none" until Adc::new returns Self, then "live"
    sample_time,  \* Adc::sample_time
    call,         \* the public operation in progress and its arguments
    result,       \* the value the last blocking_read returned
    cr,           \* ADC_CR
    isr,          \* ADC_ISR (write 1 to clear)
    cfgr,         \* ADC_CFGR
    cfgr2,        \* ADC_CFGR2
    difsel,       \* ADC_DIFSEL: the channels whose bit is DIFFERENTIAL
    smpr,         \* ADC_SMPR1: fields 0..9
    smpr2,        \* ADC_SMPR2: fields 0..8
    sqr1,         \* ADC_SQR1
    dr,           \* ADC_DR
    drch,         \* peripheral: the channel whose sample ADC_DR holds
    ccr,          \* ADCx_CCR of the common block
    rdyPending,   \* peripheral: an enable request not yet answered by ADRDY
    states,       \* history: the lifecycle states entered, in order
    cal,          \* history: calibration runs started/completed, ADCAL as polled
    adstarts,     \* history: conversion starts requested
    inflight,     \* history: conversions started whose result was not read yet
    ready,        \* history: ADRDY was read set since the last enable request
    last,         \* history: the last blocking_read, if no operation followed it
    delays,       \* history: the settle delays executed, in microseconds
    pair,         \* history: a set_differential_channel(ch, true) called first
                  \* on the handle, and the (ch, false) directly after it
    ops           \* history: public operations called

hw == <<cr, isr, cfgr, cfgr2, difsel, smpr, smpr2, sqr1, dr, drch, ccr,
       rdyPending>>
drv == <<freq, other, pc, handle, sample_time, call, result>>
hist == <<states, cal, adstarts, inflight, ready, last, delays, pair, ops>>
vars == <<freq, other, pc, handle, sample_time, call, result, cr, isr, cfgr,
          cfgr2, difsel, smpr, smpr2, sqr1, dr, drch, ccr, rdyPending, states,
          cal, adstarts, inflight, ready, last, delays, pair, ops>>

(***************************************************************************)
(* Prescaler                                                               *)
(***************************************************************************)
Unimplemented == "unimplemented!()"

\* from_ker_ck as it would be if the quotient were taken for the divisor
\* itself, rounded down to the ladder.
from_ker_ck_rounded_down(frequency) ==
    LET raw_prescaler == frequency \div MAX_ADC_CLK_FREQ IN
    CASE raw_prescaler \in 0..1 -> "NotDivided"
      [] raw_prescaler \in 2..3 -> "DividedBy2"
      [] raw_prescaler \in 4..5 -> "DividedBy4"
      [] raw_prescaler \in 6..7 -> "DividedBy6"
      [] raw_prescaler \in 8..9 -> "DividedBy8"
      [] raw_prescaler \in 10..11 -> "DividedBy10"
      [] OTHER -> Unimplemented

from_ker_ck(frequency) ==
    LET raw_prescaler == frequency \div MAX_ADC_CLK_FREQ IN
    CASE raw_prescaler = 0 -> "NotDivided"
      [] raw_prescaler = 1 -> "DividedBy2"
      [] raw_prescaler \in 2..3 -> "DividedBy4"
      [] raw_prescaler \in 4..5 -> "DividedBy6"
      [] raw_prescaler \in 6..7 -> "DividedBy8"
      [] raw_prescaler \in 8..9 -> "DividedBy10"
      [] raw_prescaler \in 10..11 -> "DividedBy12"
      [] OTHER -> Unimplemented

divisor(prescaler) ==
    CASE prescaler = "NotDivided" -> 1
      [] prescaler = "DividedBy2" -> 2
      [] prescaler = "DividedBy4" -> 4
      [] prescaler = "DividedBy6" -> 6
      [] prescaler = "DividedBy8" -> 8
      [] prescaler = "DividedBy10" -> 10
      [] prescaler = "DividedBy12" -> 12
      [] prescaler = "DividedBy16" -> 16
      [] prescaler = "DividedBy32" -> 32
      [] prescaler = "DividedBy64" -> 64
      [] prescaler = "DividedBy128" -> 128
      [] prescaler = "DividedBy256" -> 256

presc(prescaler) ==
    CASE prescaler = "NotDivided" -> "DIV1"
      [] prescaler = "DividedBy2" -> "DIV2"
      [] prescaler = "DividedBy4" -> "DIV4"
      [] prescaler = "DividedBy6" -> "DIV6"
      [] prescaler = "DividedBy8" -> "DIV8"
      [] prescaler = "DividedBy10" -> "DIV10"
      [] prescaler = "DividedBy12" -> "DIV12"
      [] prescaler = "DividedBy16" -> "DIV16"
      [] prescaler = "DividedBy32" -> "DIV32"
      [] prescaler = "DividedBy64" -> "DIV64"
      [] prescaler = "DividedBy128" -> "DIV128"
      [] prescaler = "DividedBy256" -> "DIV256"

(***************************************************************************)
(* Initial state: the peripheral before Adc::new.  The registers the       *)
(* driver overrides during construction hold what a prior session left.    *)
(***************************************************************************)
PriorDifsel == SUBSET {1, VREF_CHANNEL}

InitWith(clocks) ==
    /\ freq \in clocks
    /\ other = NoOther
    /\ pc = "new"
    /\ handle = "none"
    /\ sample_time = 0
    /\ call = NoCall
    /\ result = NoSample
    /\ cr = [deeppwd |-> TRUE, advregen |-> FALSE, adcaldif |-> "SINGLEENDED",
             adcal |-> FALSE, aden |-> FALSE, adstart |-> FALSE]
    /\ isr \in [adrdy : BOOLEAN, eoc : {FALSE}, eos : {FALSE}]
    /\ cfgr \in [res : {12}, cont : BOOLEAN, exten : {"DISABLED", "RISINGEDGE"}]
    /\ cfgr2 = [ovss |-> 0, ovsr |-> 0, rovse |-> FALSE,
                trovs |-> "AUTOMATIC", rovsm |-> "CONTINUED"]
    /\ difsel \in PriorDifsel
    /\ smpr = [n \in 0..9 |-> 0]
    /\ smpr2 = [n \in 0..8 |-> 0]
    /\ sqr1 = [sq0 |-> 0, l |-> 0]
    /\ dr = 0
    /\ drch = NoChannel
    /\ ccr = [presc |-> "DIV1", vrefen |-> FALSE, vsenseen |-> FALSE,
              vbaten |-> FALSE]
    /\ rdyPending = FALSE
    /\ states = <<"Unpowered">>
    /\ cal = [started |-> 0, completed |-> 0, sawSet |-> FALSE,
              sawClear |-> FALSE]
    /\ adstarts = 0
    /\ inflight = 0
    /\ ready = FALSE
    /\ last = NoRead
    /\ delays = <<>>
    /\ pair = NoPair
    /\ ops = 0

Init == InitWith(Frequencies)

InitClock == InitWith(ClockFrequencies)

(***************************************************************************)
(* Adc::new                                                                *)
(***************************************************************************)
\* Adc::new as it would be without the call of calibrate.
new_body_uncalibrated ==
    <<"power_up", "configure_differential_inputs", "blocking_delay_us",
      "enable", "configure">>

\* Adc::new as it would be with enable called before calibrate.
new_body_enable_first ==
    <<"power_up", "configure_differential_inputs", "enable", "calibrate",
      "blocking_delay_us", "configure">>

\* The calls of Adc::new after the clock is set, in program order.
new_body ==
    <<"power_up", "configure_differential_inputs", "calibrate",
      "blocking_delay_us", "enable", "configure">>

\* Where control goes when the callee `fn` of Adc::new returns.
Return(fn) ==
    LET i == CHOOSE k \in 1..Len(new_body) : new_body[k] = fn IN
    IF i = Len(new_body) THEN "return" ELSE new_body[i + 1]

\* Prescaler selection, its write to CCR and the frequency check.
new_clock ==
    /\ pc = "new"
    /\ LET prescaler == from_ker_ck(freq) IN
       IF prescaler = Unimplemented
       THEN /\ pc' = "unimplemented"
            /\ UNCHANGED ccr
       ELSE /\ ccr' = [ccr EXCEPT !.presc = presc(prescaler)]
            /\ pc' = IF freq \div divisor(prescaler) > MAX_ADC_CLK_FREQ
                     THEN "panic"
                     ELSE new_body[1]
    /\ UNCHANGED <<freq, other, handle, sample_time, call, result>>
    /\ UNCHANGED <<cr, isr, cfgr, cfgr2, difsel, smpr, smpr2, sqr1, dr, drch,
                   rdyPending>>
    /\ UNCHANGED hist

power_up ==
    /\ pc = "power_up"
    /\ cr' = [cr EXCEPT !.deeppwd = FALSE, !.advregen = TRUE]
    /\ pc' = "power_up_delay"
    /\ states' = Append(states, "PoweringUp")
    /\ UNCHANGED <<freq, other, handle, sample_time, call, result>>
    /\ UNCHANGED <<isr, cfgr, cfgr2, difsel, smpr, smpr2, sqr1, dr, drch, ccr,
                   rdyPending>>
    /\ UNCHANGED <<cal, adstarts, inflight, ready, last, delays, pair, ops>>

\* blocking_delay_us(10) at the end of power_up
power_up_delay ==
    /\ pc = "power_up_delay"
    /\ pc' = Return("power_up")
    /\ delays' = Append(delays, 10)
    /\ UNCHANGED <<freq, other, handle, sample_time, call, result>>
    /\ UNCHANGED hw
    /\ UNCHANGED <<states, cal, adstarts, inflight, ready, last, pair, ops>>

\* The channels the loop `for n in 0..18` visits.
DifselLoop == 0..17

configure_differential_inputs ==
    /\ pc = "configure_differential_inputs"
    /\ difsel' = difsel \ DifselLoop
    /\ pc' = Return("configure_differential_inputs")
    /\ states' = Append(states, "DefaultElectricalMode")
    /\ UNCHANGED <<freq, other, handle, sample_time, call, result>>
    /\ UNCHANGED <<cr, isr, cfgr, cfgr2, smpr, smpr2, sqr1, dr, drch, ccr,
                   rdyPending>>
    /\ UNCHANGED <<cal, adstarts, inflight, ready, last, delays, pair, ops>>

calibrate ==
    /\ pc = "calibrate"
    /\ cr' = [cr EXCEPT !.adcaldif = "SINGLEENDED"]
    /\ pc' = "calibrate_start"
    /\ states' = Append(states, "Calibrating")
    /\ UNCHANGED <<freq, other, handle, sample_time, call, result>>
    /\ UNCHANGED <<isr, cfgr, cfgr2, difsel, smpr, smpr2, sqr1, dr, drch, ccr,
                   rdyPending>>
    /\ UNCHANGED <<cal, adstarts, inflight, ready, last, delays, pair, ops>>

calibrate_start ==
    /\ pc = "calibrate_start"
    /\ cr' = [cr EXCEPT !.adcal = TRUE]
    /\ pc' = "calibrate_poll"
    /\ cal' = [cal EXCEPT !.started = @ + 1]
    /\ UNCHANGED <<freq, other, handle, sample_time, call, result>>
    /\ UNCHANGED <<isr, cfgr, cfgr2, difsel, smpr, smpr2, sqr1, dr, drch, ccr,
                   rdyPending>>
    /\ UNCHANGED <<states, adstarts, inflight, ready, last, delays, pair, ops>>

\* calibrate as it would be without the wait for ADCAL.
calibrate_no_wait(reg) == FALSE

\* The condition of `while T::regs().cr().read().adcal() {}`.
calibrate_spins(reg) == reg.adcal

calibrate_poll ==
    /\ pc = "calibrate_poll"
    /\ IF calibrate_spins(cr)
       THEN /\ pc' = "calibrate_poll"
            /\ cal' = [cal EXCEPT !.sawSet = cr.adcal \/ @]
            /\ UNCHANGED states
       ELSE /\ pc' = Return("calibrate")
            /\ cal' = [cal EXCEPT !.completed = @ + 1,
                                  !.sawClear = (cal.started > 0 /\ ~cr.adcal) \/ @]
            /\ states' = Append(states, "Calibrated")
    /\ UNCHANGED <<freq, other, handle, sample_time, call, result>>
    /\ UNCHANGED hw
    /\ UNCHANGED <<adstarts, inflight, ready, last, delays, pair, ops>>

\* blocking_delay_us(1) between calibrate and enable
blocking_delay_us ==
    /\ pc = "blocking_delay_us"
    /\ pc' = Return("blocking_delay_us")
    /\ delays' = Append(delays, 1)
    /\ UNCHANGED <<freq, other, handle, sample_time, call, result>>
    /\ UNCHANGED hw
    /\ UNCHANGED <<states, cal, adstarts, inflight, ready, last, pair, ops>>

\* A write to the write-1-to-clear status register: the flags written as 1
\* are cleared, the others keep their value.
W1C(reg, ones) == [f \in DOMAIN reg |-> reg[f] /\ f \notin ones]

\* enable as it would be without the clear of ADRDY before the request.
enable_without_clear ==
    /\ pc = "enable"
    /\ pc' = "enable_request"
    /\ states' = Append(states, "Enabling")
    /\ UNCHANGED <<freq, other, handle, sample_time, call, result>>
    /\ UNCHANGED hw
    /\ UNCHANGED <<cal, adstarts, inflight, ready, last, delays, pair, ops>>

enable ==
    /\ pc = "enable"
    /\ isr' = W1C(isr, {"adrdy"})
    /\ pc' = "enable_request"
    /\ states' = Append(states, "Enabling")
    /\ UNCHANGED <<freq, other, handle, sample_time, call, result>>
    /\ UNCHANGED <<cr, cfgr, cfgr2, difsel, smpr, smpr2, sqr1, dr, drch, ccr,
                   rdyPending>>
    /\ UNCHANGED <<cal, adstarts, inflight, ready, last, delays, pair, ops>>

enable_request ==
    /\ pc = "enable_request"
    /\ cr' = [cr EXCEPT !.aden = TRUE]
    /\ rdyPending' = (rdyPending \/ ~cr.aden)
    /\ ready' = FALSE
    /\ pc' = "enable_poll"
    /\ UNCHANGED <<freq, other, handle, sample_time, call, result>>
    /\ UNCHANGED <<isr, cfgr, cfgr2, difsel, smpr, smpr2, sqr1, dr, drch, ccr>>
    /\ UNCHANGED <<states, cal, adstarts, inflight, last, delays, pair, ops>>

\* enable as it would be without the wait for ADRDY.
enable_no_wait(reg) == FALSE

\* The condition of `while !T::regs().isr().read().adrdy() {}`.
enable_spins(reg) == ~reg.adrdy

enable_poll ==
    /\ pc = "enable_poll"
    /\ IF enable_spins(isr)
       THEN /\ pc' = "enable_poll"
            /\ UNCHANGED <<states, ready>>
       ELSE /\ pc' = "enable_ack"
            /\ states' = Append(states, "Enabled")
            /\ ready' = isr.adrdy
    /\ UNCHANGED <<freq, other, handle, sample_time, call, result>>
    /\ UNCHANGED hw
    /\ UNCHANGED <<cal, adstarts, inflight, last, delays, pair, ops>>

enable_ack ==
    /\ pc = "enable_ack"
    /\ isr' = W1C(isr, {"adrdy"})
    /\ pc' = Return("enable")
    /\ UNCHANGED <<freq, other, handle, sample_time, call, result>>
    /\ UNCHANGED <<cr, cfgr, cfgr2, difsel, smpr, smpr2, sqr1, dr, drch, ccr,
                   rdyPending>>
    /\ UNCHANGED hist

\* configure as it would be without the write of EXTEN.
configure_keeps_trigger ==
    /\ pc = "configure"
    /\ cfgr' = [cfgr EXCEPT !.cont = FALSE]
    /\ pc' = Return("configure")
    /\ states' = Append(states, "Configured")
    /\ UNCHANGED <<freq, other, handle, sample_time, call, result>>
    /\ UNCHANGED <<cr, isr, cfgr2, difsel, smpr, smpr2, sqr1, dr, drch, ccr,
                   rdyPending>>
    /\ UNCHANGED <<cal, adstarts, inflight, ready, last, delays, pair, ops>>

configure ==
    /\ pc = "configure"
    /\ cfgr' = [cfgr EXCEPT !.cont = FALSE, !.exten = "DISABLED"]
    /\ pc' = Return("configure")
    /\ states' = Append(states, "Configured")
    /\ UNCHANGED <<freq, other, handle, sample_time, call, result>>
    /\ UNCHANGED <<cr, isr, cfgr2, difsel, smpr, smpr2, sqr1, dr, drch, ccr,
                   rdyPending>>
    /\ UNCHANGED <<cal, adstarts, inflight, ready, last, delays, pair, ops>>

\* `s`: Adc::new returns the handle.
new_return ==
    /\ pc = "return"
    /\ handle' = "live"
    /\ pc' = "idle"
    /\ UNCHANGED <<freq, other, sample_time, call, result>>
    /\ UNCHANGED hw
    /\ UNCHANGED hist

(***************************************************************************)
(* The peripheral                                                          *)
(***************************************************************************)
\* The calibration ends: the peripheral clears ADCAL.
HwCalibrationDone ==
    /\ cr.adcal
    /\ cr' = [cr EXCEPT !.adcal = FALSE]
    /\ UNCHANGED drv
    /\ UNCHANGED <<isr, cfgr, cfgr2, difsel, smpr, smpr2, sqr1, dr, drch, ccr,
                   rdyPending>>
    /\ UNCHANGED hist

\* The peripheral answers an enable request by raising ADRDY.
HwReady ==
    /\ rdyPending
    /\ cr.aden
    /\ isr' = [isr EXCEPT !.adrdy = TRUE]
    /\ rdyPending' = FALSE
    /\ UNCHANGED drv
    /\ UNCHANGED <<cr, cfgr, cfgr2, difsel, smpr, smpr2, sqr1, dr, drch, ccr>>
    /\ UNCHANGED hist

\* The peripheral ends the regular sequence started by ADSTART: the result
\* is in the data register, EOC and EOS are raised and ADSTART drops.
HwConversion ==
    /\ cr.adstart
    /\ cr' = [cr EXCEPT !.adstart = FALSE]
    /\ isr' = [isr EXCEPT !.eoc = TRUE, !.eos = TRUE]
    /\ dr' \in DrValues
    /\ drch' = sqr1.sq0
    /\ UNCHANGED drv
    /\ UNCHANGED <<cfgr, cfgr2, difsel, smpr, smpr2, sqr1, ccr, rdyPending>>
    /\ UNCHANGED hist

(***************************************************************************)
(* Public operations on the handle.  Each is called with pc = "idle", the  *)
(* caller holding `&self` or `&mut self` of a handle Adc::new returned.    *)
(***************************************************************************)
Callable == pc = "idle" /\ handle = "live" /\ ops < MaxOps

\* An operation other than blocking_read was called.
Called == ops' = ops + 1 /\ last' = NoRead

\* ... and it was not set_differential_channel.
NotPaired == pair' = NoPair

enable_vrefint ==
    /\ Callable
    /\ ccr' = [ccr EXCEPT !.vrefen = TRUE]
    /\ Called
    /\ NotPaired
    /\ UNCHANGED drv
    /\ UNCHANGED <<cr, isr, cfgr, cfgr2, difsel, smpr, smpr2, sqr1, dr, drch,
                   rdyPending>>
    /\ UNCHANGED <<states, cal, adstarts, inflight, ready, delays>>

enable_temperature ==
    /\ Callable
    /\ ccr' = [ccr EXCEPT !.vsenseen = TRUE]
    /\ Called
    /\ NotPaired
    /\ UNCHANGED drv
    /\ UNCHANGED <<cr, isr, cfgr, cfgr2, difsel, smpr, smpr2, sqr1, dr, drch,
                   rdyPending>>
    /\ UNCHANGED <<states, cal, adstarts, inflight, ready, delays>>

\* enable_vbat as it would be with ccr().write in place of ccr().modify:
\* the register is written from its reset value.
enable_vbat_write ==
    /\ Callable
    /\ ccr' = [presc |-> "DIV1", vrefen |-> FALSE, vsenseen |-> FALSE,
               vbaten |-> TRUE]
    /\ Called
    /\ NotPaired
    /\ UNCHANGED drv
    /\ UNCHANGED <<cr, isr, cfgr, cfgr2, difsel, smpr, smpr2, sqr1, dr, drch,
                   rdyPending>>
    /\ UNCHANGED <<states, cal, adstarts, inflight, ready, delays>>

enable_vbat ==
    /\ Callable
    /\ ccr' = [ccr EXCEPT !.vbaten = TRUE]
    /\ Called
    /\ NotPaired
    /\ UNCHANGED drv
    /\ UNCHANGED <<cr, isr, cfgr, cfgr2, difsel, smpr, smpr2, sqr1, dr, drch,
                   rdyPending>>
    /\ UNCHANGED <<states, cal, adstarts, inflight, ready, delays>>

\* set_differential_channel(ch, enable), first statement: ADEN is cleared.
\* set_differential_channel as it would be without the disable before the
\* DIFSEL write.
set_aden_false_missing(reg) == reg

\* T::regs().cr().modify(|w| w.set_aden(false))
set_aden_false(reg) == [reg EXCEPT !.aden = FALSE]

set_differential_channel ==
    /\ Callable
    /\ \E ch \in Channels, en \in BOOLEAN :
          call' = [op |-> "set_differential_channel", ch |-> ch,
                   enable |-> en]
    /\ cr' = set_aden_false(cr)
    /\ pc' = "set_difsel"
    /\ Called
    /\ pair' = IF ops = 0 /\ call'.enable
               THEN [ch |-> call'.ch, before |-> difsel, stage |-> 1]
               ELSE IF pair.stage = 1 /\ call'.ch = pair.ch /\ ~call'.enable
               THEN [pair EXCEPT !.stage = 2]
               ELSE NoPair
    /\ UNCHANGED <<freq, other, handle, sample_time, result>>
    /\ UNCHANGED <<isr, cfgr, cfgr2, difsel, smpr, smpr2, sqr1, dr, drch, ccr,
                   rdyPending>>
    /\ UNCHANGED <<states, cal, adstarts, inflight, ready, delays>>

\* w.set_difsel(ch, v) applied to the register value reg
set_difsel(reg, ch, differential) ==
    IF differential THEN reg \cup {ch} ELSE reg \ {ch}

set_differential_channel_difsel ==
    /\ pc = "set_difsel"
    /\ difsel' = set_difsel(difsel, call.ch, call.enable)
    /\ pc' = "set_difsel_aden"
    /\ UNCHANGED <<freq, other, handle, sample_time, call, result>>
    /\ UNCHANGED <<cr, isr, cfgr, cfgr2, smpr, smpr2, sqr1, dr, drch, ccr,
                   rdyPending>>
    /\ UNCHANGED hist

set_differential_channel_aden ==
    /\ pc = "set_difsel_aden"
    /\ cr' = [cr EXCEPT !.aden = TRUE]
    /\ rdyPending' = (rdyPending \/ ~cr.aden)
    /\ ready' = FALSE
    /\ pc' = "idle"
    /\ call' = NoCall
    /\ UNCHANGED <<freq, other, handle, sample_time, result>>
    /\ UNCHANGED <<isr, cfgr, cfgr2, difsel, smpr, smpr2, sqr1, dr, drch, ccr>>
    /\ UNCHANGED <<states, cal, adstarts, inflight, last, delays, pair, ops>>

set_oversampling_shift ==
    /\ Callable
    /\ \E shift \in 0..MaxOversampling : cfgr2' = [cfgr2 EXCEPT !.ovss = shift]
    /\ Called
    /\ NotPaired
    /\ UNCHANGED drv
    /\ UNCHANGED <<cr, isr, cfgr, difsel, smpr, smpr2, sqr1, dr, drch, ccr,
                   rdyPending>>
    /\ UNCHANGED <<states, cal, adstarts, inflight, ready, delays>>

set_oversampling_ratio ==
    /\ Callable
    /\ \E ratio \in 0..MaxOversampling : cfgr2' = [cfgr2 EXCEPT !.ovsr = ratio]
    /\ Called
    /\ NotPaired
    /\ UNCHANGED drv
    /\ UNCHANGED <<cr, isr, cfgr, difsel, smpr, smpr2, sqr1, dr, drch, ccr,
                   rdyPending>>
    /\ UNCHANGED <<states, cal, adstarts, inflight, ready, delays>>

enable_regular_oversampling_mode ==
    /\ Callable
    /\ \E mode \in {"CONTINUED", "RESUMED"},
          trig_mode \in {"AUTOMATIC", "TRIGGERED"},
          en \in BOOLEAN :
          cfgr2' = [cfgr2 EXCEPT !.trovs = trig_mode, !.rovsm = mode,
                                 !.rovse = en]
    /\ Called
    /\ NotPaired
    /\ UNCHANGED drv
    /\ UNCHANGED <<cr, isr, cfgr, difsel, smpr, smpr2, sqr1, dr, drch, ccr,
                   rdyPending>>
    /\ UNCHANGED <<states, cal, adstarts, inflight, ready, delays>>

set_sample_time ==
    /\ Callable
    /\ sample_time' \in SampleTimes
    /\ Called
    /\ NotPaired
    /\ UNCHANGED <<freq, other, pc, handle, call, result>>
    /\ UNCHANGED hw
    /\ UNCHANGED <<states, cal, adstarts, inflight, ready, delays>>

\* cfgr().modify(|reg| reg.set_res(resolution.into())) applied to reg
set_res(reg, resolution) == [reg EXCEPT !.res = resolution]

set_resolution ==
    /\ Callable
    /\ \E resolution \in Resolutions : cfgr' = set_res(cfgr, resolution)
    /\ Called
    /\ NotPaired
    /\ UNCHANGED drv
    /\ UNCHANGED <<cr, isr, cfgr2, difsel, smpr, smpr2, sqr1, dr, drch, ccr,
                   rdyPending>>
    /\ UNCHANGED <<states, cal, adstarts, inflight, ready, delays>>

\* set_channel_sample_time as it would be with one bank of ten fields
\* for all channels.
set_channel_sample_time_one_bank(r1, r2, ch, st) ==
    <<[r1 EXCEPT ![ch % 10] = st], r2>>

\* The sample-time registers <<SMPR1, SMPR2>> after
\* set_channel_sample_time(ch, st) on the registers <<r1, r2>>.
set_channel_sample_time(r1, r2, ch, st) ==
    IF ch <= 9
    THEN <<[r1 EXCEPT ![ch] = st], r2>>
    ELSE <<r1, [r2 EXCEPT ![ch - 10] = st]>>

\* The channels a caller can pass to blocking_read: the pins, and the unit
\* structs VrefInt, Temperature and Vbat, which any code can name.
ReadableChannels == Channels

\* blocking_read(channel), up to the sample-time write of read_channel.
blocking_read ==
    /\ Callable
    /\ \E ch \in ReadableChannels :
          /\ call' = [op |-> "blocking_read", ch |-> ch, enable |-> FALSE]
          /\ LET r == set_channel_sample_time(smpr, smpr2, ch, sample_time)
             IN smpr' = r[1] /\ smpr2' = r[2]
    /\ pc' = "read_channel_sqr1"
    /\ ops' = ops + 1
    /\ pair' = NoPair
    /\ UNCHANGED <<freq, other, handle, sample_time, result>>
    /\ UNCHANGED <<cr, isr, cfgr, cfgr2, difsel, sqr1, dr, drch, ccr, rdyPending>>
    /\ UNCHANGED <<states, cal, adstarts, inflight, ready, last, delays>>

\* The sequence register as it would be written if each read appended an
\* entry to the regular sequence (L is a 4-bit field).
sqr1_append(reg, channel) == [sq0 |-> channel, l |-> (reg.l + 1) % 16]

\* sqr1().write(|reg| { reg.set_sq(0, channel); reg.set_l(0) }): the value
\* written, reg being the register's content before the write
sqr1_write(reg, channel) == [sq0 |-> channel, l |-> 0]

read_channel_sqr1 ==
    /\ pc = "read_channel_sqr1"
    /\ sqr1' = sqr1_write(sqr1, call.ch)
    /\ pc' = "convert"
    /\ UNCHANGED <<freq, other, handle, sample_time, call, result>>
    /\ UNCHANGED <<cr, isr, cfgr, cfgr2, difsel, smpr, smpr2, dr, drch, ccr,
                   rdyPending>>
    /\ UNCHANGED hist

\* convert as it would be without the clear of EOS and EOC before the start.
convert_keeps_flags ==
    /\ pc = "convert"
    /\ pc' = "convert_start"
    /\ UNCHANGED <<freq, other, handle, sample_time, call, result>>
    /\ UNCHANGED hw
    /\ UNCHANGED hist

\* isr().modify(|reg| { reg.set_eos(true); reg.set_eoc(true) }): the value
\* read, with EOS and EOC set, is written back to the status register.
convert ==
    /\ pc = "convert"
    /\ isr' = W1C(isr, {f \in DOMAIN isr : isr[f]} \cup {"eos", "eoc"})
    /\ pc' = "convert_start"
    /\ UNCHANGED <<freq, other, handle, sample_time, call, result>>
    /\ UNCHANGED <<cr, cfgr, cfgr2, difsel, smpr, smpr2, sqr1, dr, drch, ccr,
                   rdyPending>>
    /\ UNCHANGED hist

\* convert as it would be without the write of ADSTART.
convert_start_without_adstart ==
    /\ pc = "convert_start"
    /\ pc' = "convert_poll"
    /\ UNCHANGED <<freq, other, handle, sample_time, call, result>>
    /\ UNCHANGED hw
    /\ UNCHANGED hist

convert_start ==
    /\ pc = "convert_start"
    /\ cr' = [cr EXCEPT !.adstart = TRUE]
    /\ adstarts' = adstarts + 1
    /\ inflight' = inflight + 1
    /\ pc' = "convert_poll"
    /\ UNCHANGED <<freq, other, handle, sample_time, call, result>>
    /\ UNCHANGED <<isr, cfgr, cfgr2, difsel, smpr, smpr2, sqr1, dr, drch, ccr,
                   rdyPending>>
    /\ UNCHANGED <<states, cal, ready, last, delays, pair, ops>>

\* convert as it would be if the wait for EOS gave up.
convert_gives_up(reg) == FALSE

\* The condition of `while !T::regs().isr().read().eos() {}`.
convert_spins(reg) == ~reg.eos

convert_poll ==
    /\ pc = "convert_poll"
    /\ pc' = IF convert_spins(isr) THEN "convert_poll" ELSE "convert_read"
    /\ UNCHANGED <<freq, other, handle, sample_time, call, result>>
    /\ UNCHANGED hw
    /\ UNCHANGED hist

\* The data register's word returned without the cast.
as_u32(word) == word

\* `T::regs().dr().read().0 as u16`
as_u16(word) == word % 2^16

convert_read ==
    /\ pc = "convert_read"
    /\ result' = as_u16(dr)
    /\ last' = [ch |-> call.ch, dr |-> dr, result |-> as_u16(dr),
                cfg |-> <<smpr, smpr2, sqr1, cfgr, sample_time>>,
                of |-> drch,
                reads |-> IF last.ch = call.ch /\ last.dr = dr
                          THEN last.reads + 1 ELSE 1]
    /\ pc' = "idle"
    /\ call' = NoCall
    /\ UNCHANGED <<freq, other, handle, sample_time>>
    /\ UNCHANGED hw
    /\ inflight' = inflight - 1
    /\ UNCHANGED <<states, cal, adstarts, ready, delays, pair, ops>>

(***************************************************************************)
(* A second execution context.  It calls blocking_read on the same         *)
(* peripheral, running the code of read_channel and convert step by step   *)
(* beside the first context, with its own program position and result.     *)
(***************************************************************************)

\* The first context was inside an operation while the second was inside
\* this blocking_read.
Beside == other.interleaved \/ pc # "idle" \/ ops # other.ops0

other_blocking_read ==
    /\ handle = "live"
    /\ other.pc = "idle"
    /\ other.reads < MaxOtherReads
    /\ \E ch \in ReadableChannels :
          /\ other' = [other EXCEPT !.pc = "read_channel_sqr1", !.ch = ch,
                                    !.result = NoSample, !.of = NoChannel,
                                    !.ops0 = ops,
                                    !.interleaved = @ \/ pc # "idle"]
          /\ LET r == set_channel_sample_time(smpr, smpr2, ch, sample_time)
             IN smpr' = r[1] /\ smpr2' = r[2]
    /\ UNCHANGED <<freq, pc, handle, sample_time, call, result>>
    /\ UNCHANGED <<cr, isr, cfgr, cfgr2, difsel, sqr1, dr, drch, ccr, rdyPending>>
    /\ UNCHANGED hist

other_read_channel_sqr1 ==
    /\ other.pc = "read_channel_sqr1"
    /\ sqr1' = sqr1_write(sqr1, other.ch)
    /\ other' = [other EXCEPT !.pc = "convert", !.interleaved = Beside]
    /\ UNCHANGED <<freq, pc, handle, sample_time, call, result>>
    /\ UNCHANGED <<cr, isr, cfgr, cfgr2, difsel, smpr, smpr2, dr, drch, ccr,
                   rdyPending>>
    /\ UNCHANGED hist

other_convert ==
    /\ other.pc = "convert"
    /\ isr' = W1C(isr, {f \in DOMAIN isr : isr[f]} \cup {"eos", "eoc"})
    /\ other' = [other EXCEPT !.pc = "convert_start", !.interleaved = Beside]
    /\ UNCHANGED <<freq, pc, handle, sample_time, call, result>>
    /\ UNCHANGED <<cr, cfgr, cfgr2, difsel, smpr, smpr2, sqr1, dr, drch, ccr,
                   rdyPending>>
    /\ UNCHANGED hist

other_convert_start ==
    /\ other.pc = "convert_start"
    /\ cr' = [cr EXCEPT !.adstart = TRUE]
    /\ adstarts' = adstarts + 1
    /\ inflight' = inflight + 1
    /\ other' = [other EXCEPT !.pc = "convert_poll", !.interleaved = Beside]
    /\ UNCHANGED <<freq, pc, handle, sample_time, call, result>>
    /\ UNCHANGED <<isr, cfgr, cfgr2, difsel, smpr, smpr2, sqr1, dr, drch, ccr,
                   rdyPending>>
    /\ UNCHANGED <<states, cal, ready, last, delays, pair, ops>>

other_convert_poll ==
    /\ other.pc = "convert_poll"
    /\ other' = [other EXCEPT
                    !.pc = IF convert_spins(isr) THEN "convert_poll"
                                                 ELSE "convert_read",
                    !.interleaved = Beside]
    /\ UNCHANGED <<freq, pc, handle, sample_time, call, result>>
    /\ UNCHANGED hw
    /\ UNCHANGED hist

other_convert_read ==
    /\ other.pc = "convert_read"
    /\ other' = [other EXCEPT !.pc = "idle", !.result = as_u16(dr),
                              !.of = drch, !.reads = @ + 1,
                              !.interleaved = Beside]
    /\ inflight' = inflight - 1
    /\ UNCHANGED <<freq, pc, handle, sample_time, call, result>>
    /\ UNCHANGED hw
    /\ UNCHANGED <<states, cal, adstarts, ready, last, delays, pair, ops>>

NewNext ==
    \/ new_clock
    \/ power_up
    \/ power_up_delay
    \/ configure_differential_inputs
    \/ calibrate
    \/ calibrate_start
    \/ calibrate_poll
    \/ blocking_delay_us
    \/ enable
    \/ enable_request
    \/ enable_poll
    \/ enable_ack
    \/ configure
    \/ new_return
    \/ HwCalibrationDone
    \/ HwReady

OpNext ==
    \/ enable_vrefint
    \/ enable_temperature
    \/ enable_vbat
    \/ set_differential_channel
    \/ set_differential_channel_difsel
    \/ set_differential_channel_aden
    \/ set_oversampling_shift
    \/ set_oversampling_ratio
    \/ enable_regular_oversampling_mode
    \/ set_sample_time
    \/ set_resolution
    \/ blocking_read
    \/ read_channel_sqr1
    \/ convert
    \/ convert_start
    \/ convert_poll
    \/ convert_read
    \/ HwConversion

Next == NewNext \/ OpNext

\* The driver: construction, then any operations, beside the peripheral.
Spec == Init /\ [][Next]_vars

\* Construction alone, over the whole range of kernel clocks.
SpecClock == InitClock /\ [][NewNext]_vars

\* blocking_read called by the first context, a bounded number of times.
first_blocking_read == ops < MaxFirstReads /\ blocking_read

ReadNext ==
    \/ first_blocking_read
    \/ read_channel_sqr1
    \/ convert
    \/ convert_start
    \/ convert_poll
    \/ convert_read
    \/ HwConversion

OtherNext ==
    \/ other_blocking_read
    \/ other_read_channel_sqr1
    \/ other_convert
    \/ other_convert_start
    \/ other_convert_poll
    \/ other_convert_read

\* Construction, then two contexts calling blocking_read with nothing that
\* serializes them.
SpecRace == Init /\ [][NewNext \/ ReadNext \/ OtherNext]_vars

\* A step of the code of Adc::new or of an operation that has been called:
\* the caller's context runs the driver's code, busy-polls included, until
\* it returns.  Calling an operation is the caller's choice and no such
\* step.
DriverStep ==
    \/ new_clock
    \/ power_up
    \/ power_up_delay
    \/ configure_differential_inputs
    \/ calibrate
    \/ calibrate_start
    \/ calibrate_poll
    \/ blocking_delay_us
    \/ enable
    \/ enable_request
    \/ enable_poll
    \/ enable_ack
    \/ configure
    \/ new_return
    \/ set_differential_channel_difsel
    \/ set_differential_channel_aden
    \/ read_channel_sqr1
    \/ convert
    \/ convert_start
    \/ convert_poll
    \/ convert_read

\* The driver beside a peripheral that answers every request: the context
\* inside the driver keeps running, a requested calibration ends, an enable
\* request is answered by the ready flag, a started conversion ends.
SpecFair ==
    /\ Init
    /\ [][Next]_vars
    /\ WF_vars(DriverStep)
    /\ WF_vars(HwCalibrationDone)
    /\ WF_vars(HwReady)
    /\ WF_vars(HwConversion)


(***************************************************************************)
(* Claims                                                                  *)
(***************************************************************************)
\* The divisors from_ker_ck selects among.
Ladder == {1, 2, 4, 6, 8, 10, 12}

\* The ladder divisors d that bring the clock F to or below the ceiling,
\* F / d <= ceiling.
Sufficient(F) == {d \in Ladder : F <= d * MAX_ADC_CLK_FREQ}

SmallestSufficient(F) ==
    CHOOSE d \in Sufficient(F) : \A e \in Sufficient(F) : d <= e

\* The PRESC field value that selects the divisor d.
PrescOf(d) ==
    CASE d = 1 -> "DIV1" [] d = 2 -> "DIV2" [] d = 4 -> "DIV4"
      [] d = 6 -> "DIV6" [] d = 8 -> "DIV8" [] d = 10 -> "DIV10"
      [] d = 12 -> "DIV12"

Aborted == pc \in {"unimplemented", "panic"}

Reached(state) == \E i \in 1..Len(states) : states[i] = state

Lifecycle ==
    <<"Unpowered", "PoweringUp", "DefaultElectricalMode", "Calibrating",
      "Calibrated", "Enabling", "Enabled", "Configured">>

IsPrefix(s, t) == Len(s) <= Len(t) /\ \A i \in 1..Len(s) : s[i] = t[i]

\* C1: whenever some ladder divisor brings the kernel clock to or below the
\* ceiling, the prescaler selected and written to CCR is the smallest such
\* divisor, exact multiples of the ceiling included.
C1_SmallestSufficientDivisor ==
    (pc # "new" /\ Sufficient(freq) # {}) =>
        /\ from_ker_ck(freq) # Unimplemented
        /\ divisor(from_ker_ck(freq)) = SmallestSufficient(freq)
        /\ ccr.presc = PrescOf(SmallestSufficient(freq))

\* C2: Adc::new aborts for exactly the kernel clocks that no ladder divisor
\* brings to or below the ceiling; 12 times the ceiling is accepted.
C2_AbortsExactlyWhenNoDivisor ==
    pc # "new" => (Aborted <=> Sufficient(freq) = {})

\* C3 as stated: the driver is Configured only after it has read the
\* calibration bit ADCAL set and then read it clear.
C3_ObservedSetThenClear ==
    Reached("Configured") => (cal.sawSet /\ cal.sawClear)

\* C3 as amended: the driver is Configured only after it has requested a
\* calibration and then read ADCAL clear; it need not have read it set.
C3_ReadClearAfterRequest ==
    Reached("Configured") => (cal.started >= 1 /\ cal.sawClear)

\* C3 witness: construction ended on a peripheral that cleared ADCAL before
\* the first poll, so that the driver never read the bit set.
C3_Witness ==
    handle = "live" /\ cal.sawClear /\ ~cal.sawSet

C5_VrefReadOnlyWhenEnabled ==
    (call.op = "blocking_read" /\ call.ch = VREF_CHANNEL) => ccr.vrefen

\* C6: on a handle the calibration was started once and completed once, and
\* no conversion start was requested before the calibration completed.
C6_CalibratedOnceBeforeConversion ==
    /\ handle = "live" => (cal.started = 1 /\ cal.completed = 1)
    /\ adstarts > 0 => cal.completed >= 1
    /\ cr.adstart => cal.completed >= 1

\* C6 witness: two conversions were started on a handle calibrated once.
C6_Witness ==
    adstarts >= 2 /\ cal.started = 1 /\ cal.completed = 1

\* C7: construction enters the lifecycle states in their order, none
\* skipped or repeated, with the power-up registers written and the settle
\* delays run where the lifecycle places them; the handle exists, and
\* operations run, only once Configured is reached.
C7_LifecycleInOrder ==
    /\ IsPrefix(states, Lifecycle)
    /\ Reached("PoweringUp") => (~cr.deeppwd /\ cr.advregen)
    /\ IsPrefix(delays, <<10, 1>>)
    /\ Reached("DefaultElectricalMode") => Len(delays) >= 1
    /\ ~Reached("Calibrated") => Len(delays) <= 1
    /\ Reached("Enabling") => Len(delays) = 2
    /\ (handle = "live" \/ call # NoCall \/ ops > 0) => states = Lifecycle

\* C7 witness: an operation runs on a handle that went through all states.
C7_Witness ==
    handle = "live" /\ states = Lifecycle /\ call # NoCall

\* C8: set_differential_channel(ch, true) directly followed by
\* set_differential_channel(ch, false), on the state construction left,
\* leaves the differential-select register as it was before the two calls.
C8_DifferentialRoundTrip ==
    (pair.stage = 2 /\ pc = "idle") => difsel = pair.before

\* C9: a blocking_read that follows a blocking_read of the same channel,
\* with no other operation in between and the same word in the data
\* register, returns the same value and leaves the sample-time registers,
\* the sequence register, CFGR and the stored sample time as the previous
\* read left them.
C9_RepeatedReadIdempotent ==
    [][(pc = "convert_read" /\ pc' = "idle" /\ last.ch = call.ch
            /\ last.dr = dr)
        => /\ result' = last.result
           /\ <<smpr', smpr2', sqr1', cfgr', sample_time'>> = last.cfg]_vars

\* C9 witness: two reads of one channel in a row saw the same word.
C9_Witness ==
    pc = "idle" /\ last.reads >= 2

\* C10: on a handle, whatever operations were called, continuous mode is
\* off and the hardware trigger is disabled.
C10_SingleShotSoftwareTriggered ==
    handle = "live" => (~cfgr.cont /\ cfgr.exten = "DISABLED")

\* C10 witness: all operations of a run were called, set_resolution among
\* them, a conversion too.
C10_Witness ==
    handle = "live" /\ ops = MaxOps /\ cfgr.res # 12 /\ adstarts > 0

\* C11: no polling loop has a timeout or an error path.  While ADCAL still
\* reads set, ADRDY still reads clear or EOS still reads clear, a step of
\* the driver in the corresponding loop leaves it in that loop: Adc::new
\* does not return a handle, blocking_read does not return a value, and
\* nothing aborts.
C11_PollsWithoutTimeout ==
    [][/\ (pc = "calibrate_poll" /\ cr.adcal)
            => (pc' = "calibrate_poll" /\ handle' = handle)
       /\ (pc = "enable_poll" /\ ~isr.adrdy)
            => (pc' = "enable_poll" /\ handle' = handle)
       /\ (pc = "convert_poll" /\ ~isr.eos)
            => (pc' = "convert_poll" /\ result' = result
                    /\ call' = call)]_vars

\* C11 witness: the calibration loop has read ADCAL set and is still in
\* the loop, the hardware not having cleared the bit.
C11_Witness ==
    pc = "calibrate_poll" /\ cr.adcal /\ cal.sawSet /\ handle # "live"

\* Both contexts were inside blocking_read at the same time, now or earlier.
Overlap ==
    \/ other.interleaved
    \/ other.pc # "idle" /\ (pc # "idle" \/ ops # other.ops0)

\* C12: as long as the calls of blocking_read are serialized, at most one
\* conversion is in flight: ADSTART is requested only when no earlier
\* conversion is still converting or waits for its data register to be
\* read, and every value returned is the sample of the caller's own
\* channel.
C12_SerializedOneInFlight ==
    ~Overlap =>
        /\ inflight \in {0, 1}
        /\ (pc = "convert_start" \/ other.pc = "convert_start")
              => (inflight = 0 /\ ~cr.adstart)
        /\ last # NoRead => last.of = last.ch
        /\ other.result # NoSample => other.of = other.ch

\* C12 witness: two contexts called blocking_read with nothing serializing
\* them, their register steps interleaved, and the first context was
\* returned the sample of the channel the second one asked for.
C12_Witness ==
    /\ Overlap
    /\ pc = "idle" /\ other.pc = "idle"
    /\ last # NoRead /\ other.result # NoSample
    /\ last.ch # other.ch
    /\ last.of = other.ch

\* C13: once construction has written it, no step changes the prescaler
\* field, which is the one selected from the kernel clock, and no step
\* clears an internal-channel enable bit; enable_vrefint, enable_temperature
\* and enable_vbat each set their own bit of CCR and leave the prescaler
\* and the two other bits as they were.
C13_PrescalerAndEnablesPersist ==
    [][/\ pc # "new" =>
             /\ ccr'.presc = ccr.presc
             /\ \A b \in {"vrefen", "vsenseen", "vbaten"} : ccr[b] => ccr'[b]
       /\ handle = "live" => ccr.presc = presc(from_ker_ck(freq))
       /\ enable_vrefint => ccr' = [ccr EXCEPT !.vrefen = TRUE]
       /\ enable_temperature => ccr' = [ccr EXCEPT !.vsenseen = TRUE]
       /\ enable_vbat => ccr' = [ccr EXCEPT !.vbaten = TRUE]]_vars

\* C13 witness: the three enables were called on a handle whose prescaler
\* is not the reset value; all three bits are set.
C13_Witness ==
    /\ handle = "live" /\ ops = MaxOps
    /\ ccr.vrefen /\ ccr.vsenseen /\ ccr.vbaten
    /\ ccr.presc # "DIV1"

\* C14: every write of DIFSEL, the reset to single-ended during
\* construction included, happens while ADEN is clear: in a state from
\* which a DIFSEL write is the next step of the driver the peripheral is
\* disabled, a step that changes DIFSEL starts and ends with ADEN clear,
\* and set_differential_channel sets ADEN again after its write, so that
\* on its return, as whenever the handle is idle, the peripheral is
\* enabled.
C14_DifselWrittenWhileDisabled ==
    [][/\ pc \in {"configure_differential_inputs", "set_difsel"} => ~cr.aden
       /\ difsel' # difsel => (~cr.aden /\ ~cr'.aden)
       /\ pc = "set_difsel_aden" => (~cr.aden /\ cr'.aden /\ pc' = "idle")
       /\ (handle = "live" /\ pc = "idle") => cr.aden]_vars

\* C14 witness: set_differential_channel made channel 9 differential and
\* has returned; the peripheral is enabled.
C14_Witness ==
    handle = "live" /\ pc = "idle" /\ 9 \in difsel /\ cr.aden

\* C15: enable() clears ADRDY before it requests the enable and again
\* after the poll.  ADRDY reads clear when ADEN is requested, whatever an
\* earlier session left in the flag; a flag that ends the poll was raised
\* by the peripheral in answer to this request; and from the end of
\* enable() until the first operation on the handle, the Configured state
\* included, ADRDY reads clear.
C15_ReadyClearedAroundPoll ==
    /\ pc = "enable_request" => ~isr.adrdy
    /\ (pc = "enable_poll" /\ isr.adrdy) => ~rdyPending
    /\ pc = "enable_ack" => (ready /\ ~rdyPending)
    /\ (Reached("Enabled") /\ pc # "enable_ack" /\ ops = 0)
          => (~isr.adrdy /\ ~rdyPending)

\* C15 witness: construction reached Configured after the driver had read
\* ADRDY set in the poll; the flag reads clear.
C15_Witness ==
    Reached("Configured") /\ ops = 0 /\ ready /\ ~isr.adrdy

\* The sample-time field of channel ch.
SampleField(ch) == IF ch <= 9 THEN smpr[ch] ELSE smpr2[ch - 10]

\* C16: blocking_read writes the sample time, then the sequence register,
\* then clears EOC and EOS, then requests the start, then polls EOS, then
\* reads DR.  When the start is requested both flags read clear and no
\* conversion is in flight; EOS read set in the poll means the conversion
\* this call started has completed; DR is read only then, and holds the
\* sample of this call's channel.
C16_ReadOrder ==
    /\ pc \in {"read_channel_sqr1", "convert", "convert_start", "convert_poll",
               "convert_read"}
          => SampleField(call.ch) = sample_time
    /\ pc \in {"convert", "convert_start", "convert_poll", "convert_read"}
          => sqr1 = [sq0 |-> call.ch, l |-> 0]
    /\ pc \in {"read_channel_sqr1", "convert", "convert_start"}
          => (~cr.adstart /\ inflight = 0)
    /\ pc = "convert_start" => (~isr.eoc /\ ~isr.eos)
    /\ pc = "convert_poll"
          => (inflight = 1 /\ (isr.eos <=> ~cr.adstart)
                /\ (isr.eos => drch = call.ch))
    /\ pc = "convert_read"
          => (inflight = 1 /\ isr.eos /\ ~cr.adstart /\ drch = call.ch)

\* C16 witness: a read of one channel has left EOS set, a read of another
\* channel followed, and that read has reached its DR read.
C16_Witness ==
    /\ pc = "convert_read"
    /\ last # NoRead /\ last.ch # call.ch
    /\ drch = call.ch

\* The sample-time registers <<r1, r2>> with st in the field of channel ch
\* (field ch of the low bank for ch <= 9, field ch - 10 of the high bank
\* otherwise) and every other field as it was.
WithSampleField(r1, r2, ch, st) ==
    <<[n \in DOMAIN r1 |-> IF ch <= 9 /\ n = ch THEN st ELSE r1[n]],
      [n \in DOMAIN r2 |-> IF ch > 9 /\ n = ch - 10 THEN st ELSE r2[n]]>>

\* The fields in which the register pairs r and q differ.
FieldsChanged(r, q) ==
    {<<b, n>> \in {1, 2} \X (0 .. 9) : n \in DOMAIN r[b] /\ r[b][n] # q[b][n]}

\* C17: where blocking_read is called, the sample-time write for any
\* channel number ch of 0..=18 puts the stored sample time in field ch of
\* the low bank when ch <= 9 and in field ch - 10 of the high bank
\* otherwise, changes no other field, and two different channels have
\* different fields; the call made writes that field for its channel.
\* set_sample_time changes the stored value and no hardware register.
C17_SampleTimeField ==
    [][/\ (pc = "idle" /\ pc' = "read_channel_sqr1") =>
            /\ \A ch \in AllChannels, st \in SampleTimes :
                  LET w == set_channel_sample_time(smpr, smpr2, ch, st)
                  IN /\ w = WithSampleField(smpr, smpr2, ch, st)
                     /\ DOMAIN w[1] = DOMAIN smpr
                     /\ DOMAIN w[2] = DOMAIN smpr2
            /\ LET zero == <<[n \in DOMAIN smpr |-> 0],
                              [n \in DOMAIN smpr2 |-> 0]>>
                   fields == {FieldsChanged(zero,
                                 set_channel_sample_time(zero[1], zero[2],
                                                         ch, 1)) :
                              ch \in AllChannels}
               IN /\ \A f \in fields : Cardinality(f) = 1
                  /\ Cardinality(fields) = Cardinality(AllChannels)
            /\ <<smpr', smpr2'>>
                  = WithSampleField(smpr, smpr2, call'.ch, sample_time)
       /\ sample_time' # sample_time => UNCHANGED hw]_vars

\* C17 witness: after set_sample_time changed the stored value,
\* blocking_read of channel 18 has written it to field 8 of the high bank,
\* the low bank being as construction left it.
C17_Witness ==
    /\ pc = "read_channel_sqr1" /\ call.ch = VREF_CHANNEL
    /\ sample_time = 1 /\ smpr2[8] = 1
    /\ \A n \in DOMAIN smpr : smpr[n] = 0

\* C18: once construction has passed DefaultElectricalMode, and until an
\* operation is called on the handle, the electrical-mode bit of every
\* channel, channel 18 included, is single-ended, whatever an earlier
\* session left in the register.
C18_AllChannelsSingleEnded ==
    (Reached("DefaultElectricalMode") /\ ops = 0)
        => \A ch \in AllChannels : ch \notin difsel

\* C19: the flag-clearing step of blocking_read clears EOC and EOS and
\* nothing else: every other status flag that is set when convert() starts
\* is still set after the step.
C19_ClearsOnlyEocEos ==
    [][(pc = "convert" /\ pc' = "convert_start") =>
            /\ ~isr'.eoc /\ ~isr'.eos
            /\ \A f \in DOMAIN isr \ {"eoc", "eos"} : isr[f] => isr'[f]]_vars

\* C20: in every state in which blocking_read requests the conversion
\* start, ADEN is set and the driver has read ADRDY set since the most
\* recent enable request, also when the blocking_read directly follows
\* set_differential_channel.
C20_StartOnlyWhenReady ==
    pc = "convert_start" => (cr.aden /\ ready)

\* C21: for every kernel clock F that from_ker_ck accepts, that is with
\* F / ceiling <= 11 in integer division, the frequency Adc::new recomputes
\* as F / divisor is at most the ceiling.  The frequency check after the
\* selection never fires: construction aborts only in from_ker_ck, and
\* only for a clock it does not accept.
C21_FrequencyCheckNeverFires ==
    /\ pc # "panic"
    /\ freq \div MAX_ADC_CLK_FREQ <= 11
          => /\ from_ker_ck(freq) # Unimplemented
             /\ freq \div divisor(from_ker_ck(freq)) <= MAX_ADC_CLK_FREQ
    /\ Aborted => (pc = "unimplemented" /\ freq \div MAX_ADC_CLK_FREQ > 11)

\* C21 witness: construction has passed the frequency check and returned
\* a handle for the highest clock from_ker_ck accepts, one hertz below
\* twelve times the ceiling.
C21_Witness ==
    /\ handle = "live"
    /\ freq = 12 * MAX_ADC_CLK_FREQ - 1
    /\ ccr.presc = "DIV12"

\* C22: beside a peripheral that answers every request, and for a kernel
\* clock from_ker_ck accepts, Adc::new reaches Configured and returns the
\* handle; and every blocking_read called on the handle, whatever was
\* called before it, returns a sample of its channel.
C22_TerminatesUnderFairHardware ==
    /\ (pc = "new" /\ freq \div MAX_ADC_CLK_FREQ <= 11)
          ~> (handle = "live" /\ pc = "idle" /\ Reached("Configured"))
    /\ \A ch \in ReadableChannels :
          (pc = "read_channel_sqr1" /\ call.ch = ch)
            ~> (pc = "idle" /\ last.ch = ch /\ last.of = ch
                  /\ result = last.result)

\* C22 witness: Adc::new returned the handle, set_differential_channel
\* was called, and a blocking_read called after it has returned a sample.
C22_Witness ==
    /\ handle = "live" /\ pc = "idle" /\ Reached("Configured")
    /\ ~ready
    /\ last # NoRead /\ last.of = last.ch /\ result = last.result

=============================================================================
